---------------------------- MODULE Spec2Model ----------------------------
(***************************************************************************)
(* Model of the chat service of src/app: ChatServiceProvider               *)
(* (services/ai_chat.py) over RedisService (services/redis.py) and the     *)
(* /set-prompt route (routes/chat.py).                                     *)
(*                                                                         *)
(* A Python str is a sequence of one-character strings, so that key        *)
(* building, json.dumps / json.loads and the f-string prompt assembly are  *)
(* computed character by character as the code computes them.  An          *)
(* Optional[str] is a sequence of length at most one: None is <<>> and the *)
(* value s is <<s>>.                                                       *)
(***************************************************************************)
EXTENDS Integers, Sequences, FiniteSets, TLC

VARIABLES
    redis,      \* the Redis keyspace: a function from the keys that exist to their values
    call,       \* call[i]: the locals and the position of the i-th chat() call
    admin,      \* the last /set-prompt request and what it returned
    lastSet,    \* per client_id, the prompt of the last set_system_prompt that returned True
    asm         \* one evaluation of the prompt assembly on its own: inputs and result

vars == <<redis, call, admin, lastSet, asm>>

-----------------------------------------------------------------------------
(* Python values *)

None == <<>>
Some(x) == <<x>>

\* bool(s) of an Optional[str]: None and "" are both falsy (ai_chat.py:40)
Truthy(opt) == opt # None /\ Len(opt[1]) > 0

RECURSIVE Concat(_)
\* "".join(parts)
Concat(parts) ==
    IF parts = <<>> THEN <<>> ELSE Head(parts) \o Concat(Tail(parts))

RECURSIVE str_join(_, _)
\* sep.join(parts)
str_join(sep, parts) ==
    IF parts = <<>> THEN <<>>
    ELSE IF Len(parts) = 1 THEN parts[1]
    ELSE parts[1] \o sep \o str_join(sep, Tail(parts))

-----------------------------------------------------------------------------
(* String literals of the source *)

s_system_prompt == <<"s","y","s","t","e","m","_","p","r","o","m","p","t">>
s_chat == <<"c","h","a","t">>
s_role == <<"r","o","l","e">>
s_text == <<"t","e","x","t">>
s_system == <<"s","y","s","t","e","m">>
s_user == <<"u","s","e","r">>
s_assistant == <<"a","s","s","i","s","t","a","n","t">>
s_error_occurred ==
    <<"E","r","r","o","r"," ","o","c","c","u","r","r","e","d",":"," ">>

-----------------------------------------------------------------------------
(* json.dumps and json.loads on the message dicts *)

\* a message dict {"role": r, "text": t}, keys in insertion order
Msg(r, t) == <<<<s_role, r>>, <<s_text, t>>>>

\* json.encoder's escaping of one character (ensure_ascii alphabet of the model)
EscapeChar(c) ==
    IF c = "\"" THEN <<"\\", "\"">>
    ELSE IF c = "\\" THEN <<"\\", "\\">>
    ELSE IF c = "\n" THEN <<"\\", "n">>
    ELSE <<c>>

\* json.dumps of a str: quoted, escaped
encode_str(s) ==
    <<"\"">> \o Concat([k \in 1..Len(s) |-> EscapeChar(s[k])]) \o <<"\"">>

RECURSIVE encode_items(_)
encode_items(d) ==
    IF d = <<>> THEN <<>>
    ELSE encode_str(d[1][1]) \o <<":", " ">> \o encode_str(d[1][2])
         \o (IF Len(d) > 1 THEN <<",", " ">> ELSE <<>>)
         \o encode_items(Tail(d))

\* json.dumps(d) of a dict of str to str, default separators
json_dumps(d) == <<"{">> \o encode_items(d) \o <<"}">>

IsWs(c) == c = " " \/ c = "\n"

RECURSIVE SkipWs(_, _)
SkipWs(s, i) == IF i <= Len(s) /\ IsWs(s[i]) THEN SkipWs(s, i + 1) ELSE i

Fail == [ok |-> FALSE]

RECURSIVE ScanString(_, _, _)
\* the body of a JSON string from position i (after the opening quote)
ScanString(s, i, acc) ==
    IF i > Len(s) THEN Fail
    ELSE IF s[i] = "\"" THEN [ok |-> TRUE, val |-> acc, next |-> i + 1]
    ELSE IF s[i] = "\n" THEN Fail      \* strict mode: raw control character
    ELSE IF s[i] = "\\" THEN
        IF i + 1 > Len(s) THEN Fail
        ELSE IF s[i + 1] = "n" THEN ScanString(s, i + 2, Append(acc, "\n"))
        ELSE IF s[i + 1] \in {"\"", "\\", "/"}
            THEN ScanString(s, i + 2, Append(acc, s[i + 1]))
        ELSE Fail
    ELSE ScanString(s, i + 1, Append(acc, s[i]))

\* a JSON string starting at position i
ParseString(s, i) ==
    IF i <= Len(s) /\ s[i] = "\"" THEN ScanString(s, i + 1, <<>>) ELSE Fail

RECURSIVE ParseMembers(_, _, _)
\* the members of a JSON object from position i (after "{" or ","), str values only
ParseMembers(s, i, acc) ==
    LET k == ParseString(s, SkipWs(s, i)) IN
    IF ~k.ok THEN Fail
    ELSE LET c == SkipWs(s, k.next) IN
         IF c > Len(s) \/ s[c] # ":" THEN Fail
         ELSE LET v == ParseString(s, SkipWs(s, c + 1)) IN
              IF ~v.ok THEN Fail
              ELSE LET e == SkipWs(s, v.next)
                       got == Append(acc, <<k.val, v.val>>) IN
                   IF e > Len(s) THEN Fail
                   ELSE IF s[e] = "}" THEN [ok |-> TRUE, val |-> got, next |-> e + 1]
                   ELSE IF s[e] = "," THEN ParseMembers(s, e + 1, got)
                   ELSE Fail

\* json.loads(s) followed by use as a dict of str: [ok |-> FALSE] stands for the
\* exception raised on text that is not one JSON object with str members
json_loads(s) ==
    LET b == SkipWs(s, 1) IN
    IF b > Len(s) \/ s[b] # "{" THEN Fail
    ELSE LET a == SkipWs(s, b + 1) IN
         IF a <= Len(s) /\ s[a] = "}"
         THEN IF SkipWs(s, a + 1) > Len(s) THEN [ok |-> TRUE, val |-> <<>>] ELSE Fail
         ELSE LET m == ParseMembers(s, b + 1, <<>>) IN
              IF m.ok /\ SkipWs(s, m.next) > Len(s)
              THEN [ok |-> TRUE, val |-> m.val] ELSE Fail

HasKey(d, k) == \E j \in 1..Len(d) : d[j][1] = k

\* d[k] of a decoded dict: the last member named k wins
GetItem(d, k) ==
    LET j == CHOOSE jj \in 1..Len(d) :
                 d[jj][1] = k /\ \A l \in (jj + 1)..Len(d) : d[l][1] # k
    IN d[j][2]

-----------------------------------------------------------------------------
(* Inputs *)

\* identifiers of the requests; ":" is a legal character of an identifier
UserIds == {<<"u">>, <<"u", ":">>}
ClientIds == {<<"c">>}
\* a query may hold a newline
Queries == {<<"h", "i">>, <<"q", "\n">>}
\* what the hosted model answers
Replies == {<<"4">>}
\* system prompts of /set-prompt; "" passes the request validation (a str)
Prompts == {<<>>, <<"P">>}

\* number of chat() calls of a behaviour
MaxCalls == 2
Calls == 1..MaxCalls

-----------------------------------------------------------------------------
(* RedisService *)

system_prompt_key(client_id) == s_system_prompt \o <<":">> \o client_id

\* the chat_id left out of the key: one list for every session
chat_key_shared(chat_id) == s_chat \o <<":">>

\* f"chat:{chat_id}"
chat_key(chat_id) == s_chat \o <<":">> \o chat_id

\* the keyspace after SET key value
redis_set(r, key, value) ==
    [k \in DOMAIN r \cup {key} |-> IF k = key THEN value ELSE r[k]]

\* LPUSH in place of RPUSH: the value goes to the head of the list
redis_lpush(r, key, value) ==
    [k \in DOMAIN r \cup {key} |->
        IF k = key THEN (IF key \in DOMAIN r THEN <<value>> \o r[key] ELSE <<value>>)
        ELSE r[k]]

\* the keyspace after RPUSH key value
redis_rpush(r, key, value) ==
    [k \in DOMAIN r \cup {key} |->
        IF k = key THEN (IF key \in DOMAIN r THEN Append(r[key], value) ELSE <<value>>)
        ELSE r[k]]

\* SET with nx=True: an existing key keeps its value
set_value_nx(r, key, value) ==
    IF key \in DOMAIN r THEN r ELSE redis_set(r, key, value)

\* RedisService.set_value: the keyspace it leaves when redis.set does not raise
set_value(r, key, value) == redis_set(r, key, value)

\* RedisService.get_value: None for a key that does not exist
get_value(r, key) == IF key \in DOMAIN r THEN Some(r[key]) ELSE None

\* SET in place of RPUSH: the list is replaced by the one message
store_message_overwrite(r, chat_id, message) ==
    redis_set(r, chat_key(chat_id), <<message>>)

\* RedisService.store_message: the keyspace it leaves when redis.rpush does not raise
store_message(r, chat_id, message) == redis_rpush(r, chat_key(chat_id), message)

\* RedisService.get_messages: LRANGE 0 -1, the empty list for a key that does not exist
get_messages(r, chat_id) ==
    IF chat_key(chat_id) \in DOMAIN r THEN r[chat_key(chat_id)] ELSE <<>>

-----------------------------------------------------------------------------
(* ChatServiceProvider *)

\* a default prompt in place of None for a client without one
get_system_prompt_or_default(r, client_id) ==
    IF system_prompt_key(client_id) \in DOMAIN r
    THEN Some(r[system_prompt_key(client_id)]) ELSE Some(<<"P">>)

\* ChatServiceProvider.get_system_prompt
get_system_prompt(r, client_id) == get_value(r, system_prompt_key(client_id))

\* True also from the except clause
set_system_prompt_returns_true(raised) == TRUE

\* what ChatServiceProvider.set_system_prompt returns: True after set_value, False from
\* the except clause
set_system_prompt_returns(raised) == ~raised

\* routes/chat.py set_system_prompt: 200 with the prompt unless success is None
RouteStatus(success) == IF success \in BOOLEAN THEN 200 ELSE 500

\* chat_id = f"{user_id}:{client_id}"
ChatId(user_id, client_id) == user_id \o <<":">> \o client_id

\* f"{json.loads(m)['role']}: {json.loads(m)['text']}"
FormatLine(d) == GetItem(d, s_role) \o <<":", " ">> \o GetItem(d, s_text)

\* whether formatting stored message m raises (JSONDecodeError, KeyError, TypeError)
LineRaises(m) ==
    LET d == json_loads(m) IN
    ~d.ok \/ ~HasKey(d.val, s_role) \/ ~HasKey(d.val, s_text)

\* the lines "system: P", one per message, "user: q", joined by newlines
AssembleJoined(system_msg, history, query) ==
    IF \E k \in 1..Len(history) : LineRaises(history[k]) THEN Fail
    ELSE [ok |-> TRUE,
          val |-> str_join(<<"\n">>,
                    (IF system_msg # None
                     THEN <<s_system \o <<":", " ">> \o GetItem(system_msg[1], s_text)>>
                     ELSE <<>>)
                    \o [k \in 1..Len(history) |-> FormatLine(json_loads(history[k]).val)]
                    \o <<s_user \o <<":", " ">> \o query>>)]

\* the trailing "user: q" line left out, the query being in the history already
AssembleNoTrailing(system_msg, history, query) ==
    IF \E k \in 1..Len(history) : LineRaises(history[k]) THEN Fail
    ELSE [ok |-> TRUE,
          val |-> (IF system_msg # None
                   THEN s_system \o <<":", " ">> \o GetItem(system_msg[1], s_text) \o <<"\n">>
                   ELSE <<>>)
                  \o str_join(<<"\n">>,
                       [k \in 1..Len(history) |-> FormatLine(json_loads(history[k]).val)])]

\* the history trimmed to its last two messages
AssembleTrimmed(system_msg, history, query) ==
    LET n == Len(history)
        kept == IF n > 2 THEN SubSeq(history, n - 1, n) ELSE history
    IN IF \E k \in 1..Len(kept) : LineRaises(kept[k]) THEN Fail
       ELSE [ok |-> TRUE,
             val |-> (IF system_msg # None
                      THEN s_system \o <<":", " ">> \o GetItem(system_msg[1], s_text)
                           \o <<"\n">>
                      ELSE <<>>)
                     \o str_join(<<"\n">>,
                          [k \in 1..Len(kept) |-> FormatLine(json_loads(kept[k]).val)])
                     \o <<"\n">> \o s_user \o <<":", " ">> \o query]

\* messages that do not decode are left out of the prompt
AssembleSkipCorrupt(system_msg, history, query) ==
    LET good == {k \in 1..Len(history) : ~LineRaises(history[k])}
        Nth[n \in 0..Len(history)] ==
            IF n = 0 THEN 0
            ELSE CHOOSE k \in good : k > Nth[n - 1] /\ \A h \in good : h > Nth[n - 1] => k <= h
        kept == [n \in 1..Cardinality(good) |-> history[Nth[n]]]
    IN [ok |-> TRUE,
        val |-> (IF system_msg # None
                 THEN s_system \o <<":", " ">> \o GetItem(system_msg[1], s_text) \o <<"\n">>
                 ELSE <<>>)
                \o str_join(<<"\n">>,
                     [k \in 1..Len(kept) |-> FormatLine(json_loads(kept[k]).val)])
                \o <<"\n">> \o s_user \o <<":", " ">> \o query]

\* the prompt text built from system_msg (None when the name is falsy), the stored
\* messages as read and the query; [ok |-> FALSE] when decoding a message raises
Assemble(system_msg, history, query) ==
    IF \E k \in 1..Len(history) : LineRaises(history[k]) THEN Fail
    ELSE LET system_line ==
                 IF system_msg # None
                 THEN s_system \o <<":", " ">> \o GetItem(system_msg[1], s_text) \o <<"\n">>
                 ELSE <<>>
             formatted_history ==
                 system_line \o
                 str_join(<<"\n">>,
                          [k \in 1..Len(history) |-> FormatLine(json_loads(history[k]).val)])
         IN [ok |-> TRUE,
             val |-> formatted_history \o <<"\n">> \o s_user \o <<":", " ">> \o query]

\* f"Error occurred: {e}"; str(e) is one opaque token naming the exception
ErrorString(e) == s_error_occurred \o <<e>>

\* a call that has not started
Idle ==
    [pc |-> "START", user_id |-> <<>>, client_id |-> <<>>, query |-> <<>>,
     chat_id |-> <<>>, system_prompt |-> None, history |-> <<>>, prompt |-> None,
     reply |-> None, ret |-> None, failedAt |-> "", invoked |-> 0,
     userAt |-> 0, botAt |-> 0, setBefore |-> None, alone |-> TRUE]

Terminal == {"DONE", "REJECTED", "FAILED"}

\* chat() returns value v: its locals are gone; the request's inputs, the reply the
\* model gave and what the call did remain on record
Return(c, pc, v) ==
    [c EXCEPT !.pc = pc, !.ret = Some(v),
              !.system_prompt = None, !.history = <<>>, !.prompt = None]

\* the except clause of chat(): the call returns the error string
Raise(c, step, e) ==
    Return([c EXCEPT !.failedAt = step],
           IF e = "HTTPException" THEN "REJECTED" ELSE "FAILED", ErrorString(e))

\* lines 37-46: the call starts, reads the system prompt and checks it.
\* setBefore: the prompt of the last successful set_system_prompt for the client;
\* alone: no other call on the same chat_id is in progress
PromptCheck(i, user_id, client_id, query) ==
    /\ call[i].pc = "START"
    /\ \A j \in Calls : j < i => call[j].pc # "START"   \* calls are numbered as they start
    /\ LET chat_id == ChatId(user_id, client_id)
           c0 == [call[i] EXCEPT
                     !.user_id = user_id, !.client_id = client_id, !.query = query,
                     !.chat_id = chat_id, !.setBefore = lastSet[client_id],
                     !.alone = \A j \in Calls \ {i} :
                                  call[j].chat_id = chat_id => call[j].pc \in Terminal]
           system_prompt == get_system_prompt(redis, client_id)
       IN IF Truthy(system_prompt)
          THEN call' = [call EXCEPT ![i] =
                   [c0 EXCEPT !.system_prompt = system_prompt, !.pc = "APPEND_USER"]]
          ELSE call' = [call EXCEPT ![i] = Raise(c0, "PROMPT_CHECK", "HTTPException")]
    /\ UNCHANGED <<redis, admin, lastSet, asm>>

\* the failure of the append is swallowed and the call goes on
AppendUserBestEffort(i) ==
    /\ call[i].pc = "APPEND_USER"
    /\ \/ /\ redis' = store_message(redis, call[i].chat_id,
                                    json_dumps(Msg(s_user, call[i].query)))
          /\ call' = [call EXCEPT ![i].pc = "ASSEMBLE",
                                  ![i].userAt = Len(get_messages(redis', call[i].chat_id))]
       \/ /\ call' = [call EXCEPT ![i].pc = "ASSEMBLE", ![i].failedAt = "APPEND_USER"]
          /\ UNCHANGED redis
    /\ UNCHANGED <<admin, lastSet, asm>>

\* system_msg is stored in the chat list ahead of the user message
AppendUserStoresSystem(i) ==
    /\ call[i].pc = "APPEND_USER"
    /\ \/ /\ redis' = store_message(
                         store_message(redis, call[i].chat_id,
                                       json_dumps(Msg(s_system, call[i].system_prompt[1]))),
                         call[i].chat_id, json_dumps(Msg(s_user, call[i].query)))
          /\ call' = [call EXCEPT ![i].pc = "ASSEMBLE",
                                  ![i].userAt = Len(get_messages(redis', call[i].chat_id))]
       \/ /\ call' = [call EXCEPT ![i] = Raise(call[i], "APPEND_USER", "RedisError")]
          /\ UNCHANGED redis
    /\ UNCHANGED <<admin, lastSet, asm>>

\* lines 48-49: the user message is appended to the chat list
AppendUser(i) ==
    /\ call[i].pc = "APPEND_USER"
    /\ \/ /\ redis' = store_message(redis, call[i].chat_id,
                                    json_dumps(Msg(s_user, call[i].query)))
          /\ call' = [call EXCEPT ![i].pc = "ASSEMBLE",
                                  ![i].userAt = Len(get_messages(redis', call[i].chat_id))]
       \/ \* redis.rpush raises
          /\ call' = [call EXCEPT ![i] = Raise(call[i], "APPEND_USER", "RedisError")]
          /\ UNCHANGED redis
    /\ UNCHANGED <<admin, lastSet, asm>>

\* the system prompt is read from the store again when the prompt is built
AssemblePromptRereads(i) ==
    /\ call[i].pc = "ASSEMBLE"
    /\ LET history == get_messages(redis, call[i].chat_id)
           system_msg ==
               Some(Msg(s_system, get_system_prompt(redis, call[i].client_id)[1]))
           prompt == Assemble(system_msg, history, call[i].query)
       IN IF prompt.ok
          THEN call' = [call EXCEPT ![i].history = history,
                                    ![i].prompt = Some(prompt.val),
                                    ![i].pc = "INVOKE"]
          ELSE call' = [call EXCEPT ![i] = Raise(call[i], "ASSEMBLE", "JSONError")]
    /\ UNCHANGED <<redis, admin, lastSet, asm>>

\* lines 51-61: the chat list is read and the prompt is built
AssemblePrompt(i) ==
    /\ call[i].pc = "ASSEMBLE"
    /\ LET history == get_messages(redis, call[i].chat_id)
           system_msg == Some(Msg(s_system, call[i].system_prompt[1]))
           prompt == Assemble(system_msg, history, call[i].query)
       IN IF prompt.ok
          THEN call' = [call EXCEPT ![i].history = history,
                                    ![i].prompt = Some(prompt.val),
                                    ![i].pc = "INVOKE"]
          ELSE call' = [call EXCEPT ![i] = Raise(call[i], "ASSEMBLE", "JSONError")]
    /\ UNCHANGED <<redis, admin, lastSet, asm>>

\* the error text of a failed invocation is stored as the assistant turn
InvokeStoresError(i) ==
    /\ call[i].pc = "INVOKE"
    /\ \/ /\ \E reply \in Replies :
               call' = [call EXCEPT ![i].reply = Some(reply),
                                    ![i].invoked = @ + 1,
                                    ![i].pc = "APPEND_ASSISTANT"]
          /\ UNCHANGED redis
       \/ /\ call' = [call EXCEPT ![i] =
                      Raise([call[i] EXCEPT !.invoked = @ + 1], "INVOKE", "LLMError")]
          /\ redis' = store_message(redis, call[i].chat_id,
                                    json_dumps(Msg(s_assistant, ErrorString("LLMError"))))
    /\ UNCHANGED <<admin, lastSet, asm>>

\* a failed invocation is tried once more
InvokeRetries(i) ==
    /\ call[i].pc = "INVOKE"
    /\ \/ \E reply \in Replies :
             call' = [call EXCEPT ![i].reply = Some(reply),
                                  ![i].invoked = @ + 1,
                                  ![i].pc = "APPEND_ASSISTANT"]
       \/ /\ call[i].invoked = 0
          /\ call' = [call EXCEPT ![i].invoked = @ + 1]
       \/ /\ call[i].invoked > 0
          /\ call' = [call EXCEPT ![i] =
                      Raise([call[i] EXCEPT !.invoked = @ + 1], "INVOKE", "LLMError")]
    /\ UNCHANGED <<redis, admin, lastSet, asm>>

\* lines 63-64: the model is invoked with the prompt
Invoke(i) ==
    /\ call[i].pc = "INVOKE"
    /\ \/ \E reply \in Replies :
            call' = [call EXCEPT ![i].reply = Some(reply),
                                 ![i].invoked = @ + 1,
                                 ![i].pc = "APPEND_ASSISTANT"]
       \/ \* the invocation raises
          call' = [call EXCEPT ![i] =
                      Raise([call[i] EXCEPT !.invoked = @ + 1], "INVOKE", "LLMError")]
    /\ UNCHANGED <<redis, admin, lastSet, asm>>

\* the append of the assistant turn in a try of its own: the reply is returned
\* whether or not it was stored
AppendAssistantBestEffort(i) ==
    /\ call[i].pc = "APPEND_ASSISTANT"
    /\ \/ /\ redis' = store_message(redis, call[i].chat_id,
                                    json_dumps(Msg(s_assistant, call[i].reply[1])))
          /\ call' = [call EXCEPT ![i] =
                      Return([call[i] EXCEPT
                                 !.botAt = Len(get_messages(redis', call[i].chat_id))],
                             "DONE", call[i].reply[1])]
       \/ /\ call' = [call EXCEPT ![i] =
                      Return([call[i] EXCEPT !.failedAt = "APPEND_ASSISTANT"],
                             "FAILED", call[i].reply[1])]
          /\ UNCHANGED redis
    /\ UNCHANGED <<admin, lastSet, asm>>

\* lines 66-69: the assistant message is appended and the reply returned
AppendAssistant(i) ==
    /\ call[i].pc = "APPEND_ASSISTANT"
    /\ \/ /\ redis' = store_message(redis, call[i].chat_id,
                                    json_dumps(Msg(s_assistant, call[i].reply[1])))
          /\ call' = [call EXCEPT ![i] =
                      Return([call[i] EXCEPT
                                 !.botAt = Len(get_messages(redis', call[i].chat_id))],
                             "DONE", call[i].reply[1])]
       \/ \* redis.rpush raises
          /\ call' = [call EXCEPT ![i] = Raise(call[i], "APPEND_ASSISTANT", "RedisError")]
          /\ UNCHANGED redis
    /\ UNCHANGED <<admin, lastSet, asm>>

\* the /set-prompt response: what redis.set did, the bool of the service, the status
\* of the route
SetResponse(client_id, prompt, raised) ==
    [op |-> "set_system_prompt", client_id |-> client_id, prompt |-> prompt,
     raised |-> raised, success |-> set_system_prompt_returns(raised),
     status |-> RouteStatus(set_system_prompt_returns(raised))]

\* routes/chat.py set_system_prompt over ChatServiceProvider.set_system_prompt
SetSystemPrompt(client_id, prompt) ==
    /\ \/ /\ redis' = set_value(redis, system_prompt_key(client_id), prompt)
          /\ admin' = SetResponse(client_id, prompt, FALSE)
          /\ lastSet' = [lastSet EXCEPT ![client_id] =
                            IF admin'.success THEN Some(prompt) ELSE @]
       \/ \* redis.set raises
          /\ admin' = SetResponse(client_id, prompt, TRUE)
          /\ lastSet' = [lastSet EXCEPT ![client_id] =
                            IF admin'.success THEN Some(prompt) ELSE @]
          /\ UNCHANGED redis
    /\ UNCHANGED <<call, asm>>

NoAsm == [pc |-> "none"]

Init ==
    /\ redis = << >>
    /\ call = [i \in Calls |-> Idle]
    /\ admin = [op |-> ""]
    /\ lastSet = [c \in ClientIds |-> None]
    /\ asm = NoAsm

Next ==
    \/ \E i \in Calls, user_id \in UserIds, client_id \in ClientIds, query \in Queries :
          PromptCheck(i, user_id, client_id, query)
    \/ \E i \in Calls : AppendUser(i)
    \/ \E i \in Calls : AssemblePrompt(i)
    \/ \E i \in Calls : Invoke(i)
    \/ \E i \in Calls : AppendAssistant(i)
    \/ \E client_id \in ClientIds, prompt \in Prompts : SetSystemPrompt(client_id, prompt)

Spec == Init /\ [][Next]_vars

-----------------------------------------------------------------------------
(* The prompt assembly on its own *)

\* longest list of stored messages the assembly is evaluated on
MaxHistory == 2

\* a stored record without a text member: {"role": "user"}
s_corrupt == json_dumps(<<<<s_role, s_user>>>>)

StoredMessages ==
    {json_dumps(Msg(s_user, q)) : q \in Queries}
    \cup {json_dumps(Msg(s_assistant, r)) : r \in Replies}
    \cup {s_corrupt}

Histories == UNION {[1..n -> StoredMessages] : n \in 0..MaxHistory}

InitAsm ==
    /\ redis = << >>
    /\ call = [i \in Calls |-> Idle]
    /\ admin = [op |-> ""]
    /\ lastSet = [c \in ClientIds |-> None]
    /\ asm \in [pc : {"ready"},
                system_msg : {None} \cup {Some(Msg(s_system, p)) : p \in Prompts},
                history : Histories,
                query : Queries,
                prompt : {None}]

\* lines 53-61 applied to the inputs; prompt stays None when decoding raises
AssembleOnly ==
    /\ asm.pc = "ready"
    /\ LET prompt == Assemble(asm.system_msg, asm.history, asm.query)
       IN asm' = [asm EXCEPT !.pc = IF prompt.ok THEN "done" ELSE "raised",
                             !.prompt = IF prompt.ok THEN Some(prompt.val) ELSE None]
    /\ UNCHANGED <<redis, call, admin, lastSet>>

NextAsm == AssembleOnly

SpecAsm == InitAsm /\ [][NextAsm]_vars

-----------------------------------------------------------------------------
(* Properties *)

Log(chat_id) == get_messages(redis, chat_id)

\* stored message m decodes to the turn {role, text}
IsTurn(m, role, text) ==
    /\ ~LineRaises(m)
    /\ GetItem(json_loads(m).val, s_role) = role
    /\ GetItem(json_loads(m).val, s_text) = text

\* the number of turns of the given role in a list of stored messages
RoleCount(log, role) ==
    Cardinality({k \in 1..Len(log) :
        ~LineRaises(log[k]) /\ GetItem(json_loads(log[k]).val, s_role) = role})

ChatIds == {ChatId(u, c) : u \in UserIds, c \in ClientIds}

Started(i) == call[i].pc # "START"

\* the user turn of call i is in the log where the call appended it
UserTurnStored(i) ==
    /\ call[i].userAt \in 1..Len(Log(call[i].chat_id))
    /\ IsTurn(Log(call[i].chat_id)[call[i].userAt], s_user, call[i].query)

\* every assistant turn in a log was appended by a call that returned its reply
AssistantTurnsAccounted ==
    \A k \in ChatIds :
        RoleCount(Log(k), s_assistant) =
            Cardinality({i \in Calls : call[i].chat_id = k /\ call[i].pc = "DONE"})

\* C1: a chat() call for a client_id for which no system prompt was ever set ends
\* rejected with the 403 error, invokes the model never and appends no turn: the
\* step of the call leaves the whole keyspace as it was.
C1_UnregisteredRejected ==
    /\ [](\A i \in Calls :
            Started(i) /\ call[i].setBefore = None =>
                /\ call[i].pc = "REJECTED"
                /\ call[i].ret = Some(ErrorString("HTTPException"))
                /\ call[i].invoked = 0 /\ call[i].reply = None
                /\ call[i].userAt = 0 /\ call[i].botAt = 0)
    /\ [][\A i \in Calls :
            ~Started(i) /\ call'[i].pc # "START" /\ call'[i].setBefore = None
                => redis' = redis]_vars

C1_Witness ==
    \E i \in Calls : call[i].pc = "REJECTED" /\ call[i].setBefore = None

\* C2 (as claimed): when the append of the assistant turn fails, chat() returns the
\* reply the model produced.
C2_ReplyReturned ==
    \A i \in Calls :
        call[i].failedAt = "APPEND_ASSISTANT" => call[i].ret = call[i].reply

\* C2 (amended): when the append of the assistant turn fails, chat() returns the
\* error string of its except clause, not the reply the model produced; the user
\* turn stays stored and no assistant turn is stored for the call.
C2_ErrorReturned ==
    /\ AssistantTurnsAccounted
    /\ \A i \in Calls :
        call[i].failedAt = "APPEND_ASSISTANT" =>
            /\ call[i].pc = "FAILED"
            /\ call[i].reply # None
            /\ call[i].ret = Some(ErrorString("RedisError"))
            /\ call[i].ret # call[i].reply
            /\ call[i].botAt = 0
            /\ UserTurnStored(i)

C2_Witness ==
    \E i \in Calls : call[i].failedAt = "APPEND_ASSISTANT" /\ call[i].pc = "FAILED"

\* C3: a chat() call is rejected as unregistered exactly when no system prompt was
\* ever set for its client; after set_system_prompt(client_id, "") it proceeds.
C3_EmptyPromptRegistered ==
    \A i \in Calls :
        Started(i) => (call[i].pc = "REJECTED" <=> call[i].setBefore = None)

\* C4: when the model invocation fails, chat() returns a non-empty error string,
\* the user turn the call appended is in the log, and the call appends no
\* assistant turn.
C4_ModelFailure ==
    /\ AssistantTurnsAccounted
    /\ \A i \in Calls :
        call[i].failedAt = "INVOKE" =>
            /\ call[i].pc = "FAILED"
            /\ call[i].ret # None /\ Len(call[i].ret[1]) > 0
            /\ call[i].ret = Some(ErrorString("LLMError"))
            /\ call[i].invoked = 1 /\ call[i].reply = None
            /\ UserTurnStored(i)
            /\ call[i].botAt = 0

C4_Witness ==
    \E i \in Calls :
        /\ call[i].failedAt = "INVOKE"
        /\ call[i].ret = Some(ErrorString("LLMError"))
        /\ Len(Log(call[i].chat_id)) > 0

RECURSIVE ExpectedLog(_, _)
\* the turns of the calls on chat_id numbered i and above, in call order
ExpectedLog(chat_id, i) ==
    IF i > MaxCalls THEN <<>>
    ELSE (IF Started(i) /\ call[i].chat_id = chat_id
          THEN <<json_dumps(Msg(s_user, call[i].query)),
                 json_dumps(Msg(s_assistant,
                                IF call[i].reply = None THEN <<>> ELSE call[i].reply[1]))>>
          ELSE <<>>)
         \o ExpectedLog(chat_id, i + 1)

CallsOn(chat_id) == {i \in Calls : Started(i) /\ call[i].chat_id = chat_id}

\* the calls on chat_id ran one after another, all have returned, and no store
\* write and no model invocation failed
RanInSequence(chat_id) ==
    /\ CallsOn(chat_id) # {}
    /\ \A i \in CallsOn(chat_id) :
        /\ call[i].alone
        /\ call[i].pc \in Terminal
        /\ call[i].failedAt \notin {"APPEND_USER", "ASSEMBLE", "INVOKE", "APPEND_ASSISTANT"}

\* C5: n chat() calls run one after another on a session of a registered client,
\* with no store or model failure, each return the reply of the model, and leave
\* exactly the 2n turns user, assistant, ... in call order.
C5_SequentialHistory ==
    \A k \in ChatIds :
        RanInSequence(k) /\ (\A i \in CallsOn(k) : call[i].setBefore # None) =>
            /\ \A i \in CallsOn(k) : call[i].reply # None /\ call[i].ret = call[i].reply
            /\ Log(k) = ExpectedLog(k, 1)
            /\ Len(Log(k)) = 2 * Cardinality(CallsOn(k))

\* C5 for the calls that found a non-empty prompt set
C5_SequentialHistoryNonEmpty ==
    \A k \in ChatIds :
        RanInSequence(k) /\ (\A i \in CallsOn(k) : Truthy(call[i].setBefore)) =>
            /\ \A i \in CallsOn(k) : call[i].reply # None /\ call[i].ret = call[i].reply
            /\ Log(k) = ExpectedLog(k, 1)
            /\ Len(Log(k)) = 2 * Cardinality(CallsOn(k))

C5_WitnessNonEmpty ==
    \E k \in ChatIds :
        /\ RanInSequence(k)
        /\ Cardinality(CallsOn(k)) = 2
        /\ \A i \in CallsOn(k) : Truthy(call[i].setBefore)

\* C6: for every chat() call that returned its reply, the log of its session
\* holds a user turn with the call's query before the assistant turn the call
\* appended, whatever the interleaving.
C6_UserBeforeAssistant ==
    \A i \in Calls :
        call[i].pc = "DONE" =>
            /\ call[i].botAt \in 1..Len(Log(call[i].chat_id))
            /\ IsTurn(Log(call[i].chat_id)[call[i].botAt], s_assistant, call[i].reply[1])
            /\ \E p \in 1..(call[i].botAt - 1) :
                   IsTurn(Log(call[i].chat_id)[p], s_user, call[i].query)

\* two calls on one session interleaved: both user turns precede both assistant turns
C6_Witness ==
    \E i, j \in Calls :
        /\ i # j
        /\ call[i].pc = "DONE" /\ call[j].pc = "DONE"
        /\ call[i].chat_id = call[j].chat_id
        /\ call[i].query # call[j].query
        /\ call[i].userAt < call[j].userAt
        /\ call[j].userAt < call[i].botAt
        /\ call[i].botAt < call[j].botAt

\* C7: when the append of the user turn fails, chat() returns the error string:
\* the model is not invoked, no assistant turn is appended, and the failing step
\* leaves the keyspace as it was.
C7_UserAppendFailure ==
    /\ [](\A i \in Calls :
            call[i].failedAt = "APPEND_USER" =>
                /\ call[i].pc = "FAILED"
                /\ call[i].ret = Some(ErrorString("RedisError"))
                /\ call[i].invoked = 0 /\ call[i].reply = None
                /\ call[i].userAt = 0 /\ call[i].botAt = 0)
    /\ [](AssistantTurnsAccounted)
    /\ [][\A i \in Calls :
            call[i].failedAt # "APPEND_USER" /\ call'[i].failedAt = "APPEND_USER"
                => redis' = redis]_vars

C7_Witness ==
    \E i \in Calls : call[i].failedAt = "APPEND_USER" /\ call[i].pc = "FAILED"

\* C8: get_system_prompt(client_id) returns the prompt of the last
\* set_system_prompt(client_id, P) that succeeded, the empty string included, and
\* None before any.
C8_LastWriteWins ==
    /\ \A c \in ClientIds : get_system_prompt(redis, c) = lastSet[c]
    /\ admin.op = "set_system_prompt" /\ admin.success =>
           get_system_prompt(redis, admin.client_id) = Some(admin.prompt)

C8_Witness ==
    /\ admin.op = "set_system_prompt" /\ admin.success /\ admin.prompt = <<>>
    /\ get_system_prompt(redis, admin.client_id) = Some(<<>>)

C10_SetReturns ==
    /\ [](admin.op = "set_system_prompt" =>
            /\ admin.success \in BOOLEAN
            /\ admin.success = ~admin.raised)
    /\ [][admin' # admin /\ ~admin'.success =>
            get_system_prompt(redis', admin'.client_id)
                = get_system_prompt(redis, admin'.client_id)]_vars

C10_Witness ==
    /\ admin.op = "set_system_prompt" /\ ~admin.success
    /\ get_system_prompt(redis, admin.client_id) # None
    /\ get_system_prompt(redis, admin.client_id) # Some(admin.prompt)

IsPrefix(p, t) == Len(p) <= Len(t) /\ SubSeq(t, 1, Len(p)) = p

IsSuffix(p, t) == Len(p) <= Len(t) /\ SubSeq(t, Len(t) - Len(p) + 1, Len(t)) = p

\* call i appended a turn to its session
Appended(i) == call[i].userAt > 0 \/ call[i].botAt > 0

\* C11: get_messages on a session key to which no turn was ever appended returns
\* the empty list, also after calls on other sessions and after rejected calls on
\* this session.
C11_UntouchedEmpty ==
    \A k \in ChatIds :
        (\A i \in Calls : call[i].chat_id = k => ~Appended(i)) =>
            get_messages(redis, k) = <<>>

\* a rejected call on the untouched session, turns in another session
C11_Witness ==
    \E k \in ChatIds, i, j \in Calls :
        /\ \A h \in Calls : call[h].chat_id = k => ~Appended(h)
        /\ call[i].chat_id = k /\ call[i].pc = "REJECTED"
        /\ call[j].chat_id # k /\ call[j].pc = "DONE"
        /\ get_messages(redis, k) = <<>>
        /\ Len(get_messages(redis, call[j].chat_id)) = 2

\* the prompt line of a turn
TurnLine(role, text) == role \o <<":", " ">> \o text

\* C12: in every call that reaches the model invocation, the prompt holds the line
\* "user: <query>" of the call's own query at least twice: once among the history
\* lines, from the user turn the call appended, and once as the final line, under
\* any interleaving with other calls on the same session.
C12_QueryTwice ==
    \A i \in Calls :
        call[i].pc = "INVOKE" =>
            LET t == call[i].prompt[1]
                x == <<"\n">> \o TurnLine(s_user, call[i].query)
            IN /\ call[i].userAt \in 1..Len(call[i].history)
               /\ IsTurn(call[i].history[call[i].userAt], s_user, call[i].query)
               /\ IsSuffix(x, t)
               /\ \E p \in 1..(Len(t) - 2 * Len(x) + 1) :
                      SubSeq(t, p, p + Len(x)) = x \o <<"\n">>

\* the user turn of another call on the session lies between the call's own user
\* turn and its read of the history
C12_Witness ==
    \E i, j \in Calls :
        /\ i # j /\ call[i].pc = "INVOKE" /\ call[j].chat_id = call[i].chat_id
        /\ call[j].userAt > call[i].userAt
        /\ call[j].userAt <= Len(call[i].history)
        /\ IsSuffix(TurnLine(s_user, call[i].query), call[i].prompt[1])

\* the prompt line of the turn at position k of the log of chat_id, from the call
\* that appended it
AppendedLine(chat_id, k) ==
    LET j == CHOOSE j \in Calls :
                 call[j].chat_id = chat_id /\ (call[j].userAt = k \/ call[j].botAt = k)
    IN IF call[j].userAt = k THEN TurnLine(s_user, call[j].query)
       ELSE TurnLine(s_assistant, call[j].reply[1])

\* C13: in every call that reaches the model invocation, the prompt is the line
\* "system: <prompt>", then one line "<role>: <text>" for every turn of the log as
\* read by the call, in log order and none left out or cut short, then the final
\* line "user: <query>".
C13_PromptText ==
    \A i \in Calls :
        call[i].pc = "INVOKE" =>
            LET n == Len(call[i].history) IN
            /\ n >= call[i].userAt
            /\ call[i].history = SubSeq(Log(call[i].chat_id), 1, n)
            /\ \A k \in 1..n : \E j \in Calls :
                   call[j].chat_id = call[i].chat_id
                   /\ (call[j].userAt = k \/ call[j].botAt = k)
            /\ call[i].prompt =
                 Some(str_join(<<"\n">>,
                        <<TurnLine(s_system, call[i].system_prompt[1])>>
                        \o [k \in 1..n |-> AppendedLine(call[i].chat_id, k)]
                        \o <<TurnLine(s_user, call[i].query)>>))

\* a history of three turns, one of them with a newline in its text
C13_Witness ==
    \E i \in Calls :
        /\ call[i].pc = "INVOKE" /\ Len(call[i].history) = 3
        /\ \E k \in 1..3 : IsTurn(call[i].history[k], s_user, <<"q", "\n">>)
        /\ IsTurn(call[i].history[2], s_assistant, <<"4">>)

\* the (call, role) pairs whose turn was appended at position k of the log of chat_id
AppendedAt(chat_id, k) ==
    {<<j, s_user>> : j \in {h \in Calls : call[h].chat_id = chat_id /\ call[h].userAt = k}}
    \cup
    {<<j, s_assistant>> :
        j \in {h \in Calls : call[h].chat_id = chat_id /\ call[h].botAt = k}}

\* C14: under any interleaving of calls on one session the log is append-only with
\* whole-record appends: every turn appended is in the log once, as the record that
\* was pushed, and the log read at any time is a prefix of the log read later.
C14_AppendOnly ==
    /\ [](\A i \in Calls :
            /\ call[i].userAt > 0 =>
                   /\ call[i].userAt <= Len(Log(call[i].chat_id))
                   /\ Log(call[i].chat_id)[call[i].userAt] =
                          json_dumps(Msg(s_user, call[i].query))
            /\ call[i].botAt > 0 =>
                   /\ call[i].botAt <= Len(Log(call[i].chat_id))
                   /\ Log(call[i].chat_id)[call[i].botAt] =
                          json_dumps(Msg(s_assistant, call[i].reply[1])))
    /\ [](\A k \in ChatIds : \A n \in 1..Len(Log(k)) :
            Cardinality(AppendedAt(k, n)) = 1)
    /\ [][\A k \in ChatIds :
            /\ IsPrefix(Log(k), get_messages(redis', k))
            /\ Len(get_messages(redis', k)) <= Len(Log(k)) + 1]_vars

\* the turns of two calls interleaved in one log
C14_Witness ==
    \E i, j \in Calls :
        /\ i # j /\ call[i].chat_id = call[j].chat_id
        /\ call[i].userAt = 1 /\ call[j].userAt = 2 /\ call[i].botAt = 3
        /\ Len(Log(call[i].chat_id)) = 3

\* ---------------------------------------------------------------------------
\* The service started on a keyspace that already holds data: Redis outlives the
\* process and is written by whoever has its URL.
\* ---------------------------------------------------------------------------

\* a stored record that is not JSON
s_garbage == <<"x">>

\* the conversation lists found at start
StoredLogs ==
    {<<>>,
     <<s_corrupt>>,
     <<json_dumps(Msg(s_user, <<"h", "i">>)), s_garbage>>}

\* the keyspaces found at start: empty, or every client registered and a list for
\* the session of the first user
StoredKeyspaces ==
    {<< >>} \cup
    {[k \in {system_prompt_key(c) : c \in ClientIds}
            \cup (IF log = <<>> THEN {} ELSE {chat_key(ChatId(<<"u">>, <<"c">>))}) |->
        IF k \in {system_prompt_key(c) : c \in ClientIds} THEN <<"P">> ELSE log]
     : log \in StoredLogs}

InitStored ==
    /\ redis \in StoredKeyspaces
    /\ call = [i \in Calls |-> Idle]
    /\ admin = [op |-> ""]
    /\ lastSet = [c \in ClientIds |-> get_value(redis, system_prompt_key(c))]
    /\ asm = NoAsm

SpecStored == InitStored /\ [][Next]_vars

\* the log of chat_id holds a record that does not decode to a role and a text
Corrupt(chat_id) ==
    \E n \in 1..Len(Log(chat_id)) : LineRaises(Log(chat_id)[n])

\* C15: when the log of a session holds a record that does not decode to a turn
\* with a role and a text, a call on that session fails with the error string: the
\* record is not skipped, the model is not invoked and no assistant turn is
\* appended.
C15_CorruptRecordFails ==
    /\ \A i \in Calls :
        Started(i) /\ Corrupt(call[i].chat_id) =>
            /\ call[i].pc \notin {"INVOKE", "APPEND_ASSISTANT", "DONE"}
            /\ call[i].invoked = 0 /\ call[i].reply = None /\ call[i].botAt = 0
            /\ call[i].prompt = None
            /\ call[i].pc \in Terminal =>
                   call[i].failedAt \in {"PROMPT_CHECK", "APPEND_USER", "ASSEMBLE"}
            /\ call[i].failedAt = "ASSEMBLE" =>
                   /\ call[i].pc = "FAILED"
                   /\ call[i].ret = Some(ErrorString("JSONError"))
    /\ \A k \in ChatIds : Corrupt(k) => RoleCount(Log(k), s_assistant) = 0

\* a call failed on reading a list with a record that is not JSON, after it
\* appended its user turn behind that record
C15_Witness ==
    \E i \in Calls :
        /\ call[i].failedAt = "ASSEMBLE" /\ call[i].pc = "FAILED"
        /\ call[i].userAt = 3
        /\ Log(call[i].chat_id)[2] = s_garbage
        /\ Len(Log(call[i].chat_id)) = 3

\* the order of the steps of chat(): each pair is a step and the position after it
StepOrder ==
    {<<"START", "REJECTED">>, <<"START", "APPEND_USER">>,
     <<"APPEND_USER", "FAILED">>, <<"APPEND_USER", "ASSEMBLE">>,
     <<"ASSEMBLE", "FAILED">>, <<"ASSEMBLE", "INVOKE">>,
     <<"INVOKE", "FAILED">>, <<"INVOKE", "APPEND_ASSISTANT">>,
     <<"APPEND_ASSISTANT", "FAILED">>, <<"APPEND_ASSISTANT", "DONE">>}

\* C16: a call goes through prompt check, then either rejection or user append,
\* assembly, invocation, assistant append, done: the model is invoked only after
\* the prompt was found, the user turn appended and the history read; the
\* assistant turn is appended only after the model returned a reply; no later step
\* runs after a step has failed.
C16_StepOrder ==
    /\ [][\A i \in Calls :
            /\ call'[i].pc # call[i].pc => <<call[i].pc, call'[i].pc>> \in StepOrder
            /\ call[i].pc \in Terminal => call'[i] = call[i]
            /\ call'[i].invoked > call[i].invoked =>
                   /\ call[i].pc = "INVOKE" /\ call[i].prompt # None
                   /\ Truthy(call[i].system_prompt) /\ call[i].userAt > 0
                   /\ Len(call[i].history) >= call[i].userAt
            /\ call'[i].botAt > call[i].botAt =>
                   /\ call[i].pc = "APPEND_ASSISTANT"
                   /\ call[i].reply # None /\ call[i].invoked = 1]_vars
    /\ [][\A k \in ChatIds :
            get_messages(redis', k) # Log(k) =>
                \E i \in Calls :
                    /\ call[i].chat_id = k
                    /\ call[i].pc \in {"APPEND_USER", "APPEND_ASSISTANT"}
                    /\ call'[i].pc \in {"ASSEMBLE", "DONE"}]_vars
    /\ [](\A i \in Calls :
            /\ call[i].failedAt # "" => call[i].pc \in {"REJECTED", "FAILED"}
            /\ call[i].failedAt \in {"PROMPT_CHECK", "APPEND_USER"} =>
                   call[i].userAt = 0 /\ call[i].invoked = 0 /\ call[i].botAt = 0
            /\ call[i].failedAt = "ASSEMBLE" =>
                   call[i].userAt > 0 /\ call[i].invoked = 0 /\ call[i].botAt = 0
            /\ call[i].failedAt = "INVOKE" =>
                   call[i].invoked = 1 /\ call[i].reply = None /\ call[i].botAt = 0
            /\ call[i].failedAt = "APPEND_ASSISTANT" => call[i].botAt = 0
            /\ call[i].pc = "DONE" =>
                   /\ call[i].failedAt = "" /\ call[i].invoked = 1
                   /\ 0 < call[i].userAt /\ call[i].userAt < call[i].botAt)

\* a call that failed in the assembly, on a session other than that of a call
\* that is done
C16_Witness ==
    \E i, j \in Calls :
        /\ call[i].pc = "DONE" /\ call[i].botAt > call[i].userAt
        /\ call[j].pc = "FAILED" /\ call[j].failedAt = "ASSEMBLE"

\* C17: whatever store or model failures occur, one call invokes the model at most
\* once and appends at most one user turn and at most one assistant turn: after k
\* calls on a session its log holds at most 2k turns.
C17_NoRetries ==
    /\ \A i \in Calls : call[i].invoked <= 1
    /\ \A k \in ChatIds :
        LET n == Cardinality(CallsOn(k)) IN
        /\ Len(Log(k)) <= 2 * n
        /\ RoleCount(Log(k), s_user) <= n
        /\ RoleCount(Log(k), s_assistant) <= n
        /\ RoleCount(Log(k), s_user) =
               Cardinality({i \in CallsOn(k) : call[i].userAt > 0})
        /\ RoleCount(Log(k), s_assistant) =
               Cardinality({i \in CallsOn(k) : call[i].botAt > 0})

\* two calls on one session, each with a failure, have returned
C17_Witness ==
    \E i, j \in Calls :
        /\ i # j /\ call[i].chat_id = call[j].chat_id
        /\ call[i].failedAt = "INVOKE" /\ call[i].invoked = 1
        /\ call[j].failedAt = "APPEND_ASSISTANT" /\ call[j].invoked = 1
        /\ Len(Log(call[i].chat_id)) = 2

\* C18: every record stored in a conversation list is a turn with role user or
\* assistant; a turn with role system is never stored, the system prompt goes into
\* the prompt text only.
C18_NoSystemTurnStored ==
    /\ DOMAIN redis \subseteq
           {chat_key(k) : k \in ChatIds} \cup {system_prompt_key(c) : c \in ClientIds}
    /\ \A k \in ChatIds : \A n \in 1..Len(Log(k)) :
           /\ ~LineRaises(Log(k)[n])
           /\ GetItem(json_loads(Log(k)[n]).val, s_role) \in {s_user, s_assistant}
    /\ \A i \in Calls :
           call[i].pc = "INVOKE" =>
               IsPrefix(TurnLine(s_system, call[i].system_prompt[1]), call[i].prompt[1])

\* a call is done and its two turns are stored; a second call on the session has
\* read them and built its prompt, and no stored turn has the role system
C18_Witness ==
    \E i, j \in Calls :
        /\ call[i].pc = "DONE" /\ call[i].botAt = 2
        /\ call[j].pc = "INVOKE" /\ call[j].chat_id = call[i].chat_id
        /\ Len(call[j].history) = 3
        /\ RoleCount(Log(call[i].chat_id), s_system) = 0

\* ---------------------------------------------------------------------------
\* Identifiers with ":" on both sides of the chat_id: two registered clients, c
\* and :c, and the users u and u: .
\* ---------------------------------------------------------------------------

KeyClientIds == {<<"c">>, <<":", "c">>}

InitKeys ==
    /\ redis = [k \in {system_prompt_key(c) : c \in KeyClientIds} |-> <<"P">>]
    /\ call = [i \in Calls |-> Idle]
    /\ admin = [op |-> ""]
    /\ lastSet = [c \in KeyClientIds |-> Some(<<"P">>)]
    /\ asm = NoAsm

NextKeys ==
    \/ \E i \in Calls, user_id \in UserIds, client_id \in KeyClientIds, query \in Queries :
          PromptCheck(i, user_id, client_id, query)
    \/ \E i \in Calls : AppendUser(i)
    \/ \E i \in Calls : AssemblePrompt(i)
    \/ \E i \in Calls : Invoke(i)
    \/ \E i \in Calls : AppendAssistant(i)

SpecKeys == InitKeys /\ [][NextKeys]_vars

\* C19: for any two distinct pairs (user_id, client_id), a step of a call for the
\* one pair leaves the conversation log of the other pair as it was, also for
\* identifiers that contain ":".
C19_SessionIsolation ==
    [][\A i \in Calls :
          call'[i] # call[i] =>
              \A user_id \in UserIds, client_id \in KeyClientIds :
                  <<user_id, client_id>> # <<call'[i].user_id, call'[i].client_id>> =>
                      get_messages(redis', ChatId(user_id, client_id)) =
                          get_messages(redis, ChatId(user_id, client_id))]_vars

\* C20: the system prompt a call uses is the value it read in its prompt check:
\* when set_system_prompt for the same client overwrites the value after that read
\* and before the invocation, the system line of the prompt still carries the
\* value that was stored at that read.
C20_PromptReadOnce ==
    \A i \in Calls :
        call[i].pc = "INVOKE" =>
            /\ call[i].setBefore # None
            /\ call[i].system_prompt = call[i].setBefore
            /\ IsPrefix(TurnLine(s_system, call[i].setBefore[1]) \o <<"\n">>,
                        call[i].prompt[1])

\* the stored value was overwritten by a set that went through while the call was
\* between its check and its invocation
C20_Witness ==
    \E i \in Calls :
        /\ call[i].pc = "INVOKE"
        /\ admin.op = "set_system_prompt" /\ admin.success /\ ~admin.raised
        /\ admin.client_id = call[i].client_id
        /\ get_system_prompt(redis, call[i].client_id) # call[i].setBefore
        /\ get_system_prompt(redis, call[i].client_id) = Some(admin.prompt)
        /\ IsPrefix(TurnLine(s_system, <<"P">>), call[i].prompt[1])

=============================================================================
